---- MODULE Spec2Model ----
(***************************************************************************)
(* State-machine model of the kvstore repository: the storage engine       *)
(* (MemoryStorage, DiskStorage), the consensus Node that wraps it, the     *)
(* replicated state machine (FSM) with its snapshots, and the              *)
(* consistent-hash ring.                                                   *)
(***************************************************************************)
EXTENDS Integers, Sequences, FiniteSets, TLC

VARIABLES
    backend,   \* which Storage implementation the store is: "memory" | "disk"
    data,      \* MemoryStorage.data (for DiskStorage: d.memory.data, the cache)
    files,     \* DiskStorage: regular files of dirPath, file name -> file contents
    now,       \* time.Now().UnixNano()
    last,      \* the last Storage call and what it returned
    failed,    \* some Set/Delete/Clear call has returned a non-nil error
    ioFault,   \* some file-system call has failed so far
    role,      \* n.raft.State() of the node
    raftLog,   \* commands appended to the node's replicated log
    call,      \* the Node.Set / Node.Delete call in progress
    quorum,    \* the node can exchange messages with a majority of the cluster
    pending,   \* commands committed by another leader, not yet received by the node
    acked,     \* key -> value of the latest write a client of the cluster saw succeed
    wclock,    \* time.Now() of the WaitForLeader caller, in units of 100 ms
    wait,      \* the Node.WaitForLeader call in progress
    leaderAddr,\* n.raft.Leader(): "" while no leader is known
    ringKeys,  \* consistenthash.Map.keys
    hashMap,   \* consistenthash.Map.hashMap
    members,   \* node IDs added to the ring and not removed since
    snap,      \* the FSM.Snapshot call in progress or last completed
    gor,       \* goroutine -> the Storage call it runs and the code it has left to run
    mu         \* the two sync.RWMutex: "memory" is m.mutex, "disk" is d.mutex

vars == <<backend, data, files, now, last, failed, ioFault, role, raftLog, call,
          quorum, pending, acked, wclock, wait, leaderAddr, ringKeys, hashMap, members,
          snap, gor, mu>>

storageVars == <<backend, data, files, now, last, failed, ioFault>>

nodeVars == <<role, raftLog, call, quorum, pending, acked>>

waitVars == <<wclock, wait, leaderAddr>>

ringVars == <<ringKeys, hashMap, members>>

snapVars == <<snap>>

lockVars == <<gor, mu>>

----------------------------------------------------------------------------
(* Bounds and input domains *)

\* the clock runs from 1 to MaxTime
MaxTime == 3

\* keys, in the order os.ReadDir lists their files (sorted by file name)
KeySeq == <<"a", "b">>

Keys == {KeySeq[i] : i \in 1..Len(KeySeq)}

\* a Go []byte: nil, or a (possibly empty) byte sequence
NilBytes == [nil |-> TRUE, bytes |-> <<>>]

Bytes(s) == [nil |-> FALSE, bytes |-> s]

DataSet == {NilBytes, Bytes(<<7>>)}

\* Expiration stamps the callers use: 0 (none) and an instant the clock passes
ExpSet == {0, 2}

\* The files on which the mutating file-system calls of one Storage call
\* (os.WriteFile, os.Remove) fail. Reads (os.ReadDir, os.ReadFile, os.Stat)
\* of an existing file succeed. MemoryStorage makes no file-system call.
FaultSets(b) == IF b = "memory" THEN {{}} ELSE SUBSET Keys

\* a call on one key touches that key's file alone
KeyFaults(b, key) == IF b = "memory" THEN {{}} ELSE {{}, {key}}

----------------------------------------------------------------------------
(* storage.Value and the package errors *)

Value(d, e) == [Data |-> d, Expiration |-> e]

ZeroValue == Value(NilBytes, 0)

\* the empty string, where a call takes no key
NoKey == ""

Values == {Value(d, e) : d \in DataSet, e \in ExpSet}

NoError == "nil"

ErrKeyNotFound == "key not found"

ErrKeyExpired == "key expired"

\* an *os.PathError from the file system (neither of the package errors)
ErrIO == "os.PathError"

\* the test `val.Expiration > 0 && val.Expiration < time.Now().UnixNano()`
IsExpired(v, t) == v.Expiration > 0 /\ v.Expiration < t

EmptyMap == [k \in {} |-> ZeroValue]

MapSet(m, k, v) == [x \in (DOMAIN m) \cup {k} |-> IF x = k THEN v ELSE m[x]]

MapDelete(m, k) == [x \in (DOMAIN m) \ {k} |-> m[x]]

----------------------------------------------------------------------------
(* MemoryStorage: each operator maps the map `m` to the map after the call  *)
(* and the values returned.                                                 *)

\* (mutant) Set that keeps the value of a key already in the map
MemoryStorage_Set_keepOld(m, key, value) ==
    [data |-> IF key \in DOMAIN m THEN m ELSE MapSet(m, key, value), err |-> NoError]

MemoryStorage_Set(m, key, value) == [data |-> MapSet(m, key, value), err |-> NoError]

MemoryStorage_Delete(m, key) == [data |-> MapDelete(m, key), err |-> NoError]

MemoryStorage_Get(m, key, t) ==
    IF key \notin DOMAIN m
    THEN [data |-> m, val |-> ZeroValue, err |-> ErrKeyNotFound]
    ELSE IF IsExpired(m[key], t)
         THEN [data |-> MemoryStorage_Delete(m, key).data,
               val |-> ZeroValue, err |-> ErrKeyExpired]
         ELSE [data |-> m, val |-> m[key], err |-> NoError]

\* (mutant) Has without the expiration test
MemoryStorage_Has_noExpiry(m, key, t) == key \in DOMAIN m

MemoryStorage_Has(m, key, t) ==
    IF key \notin DOMAIN m THEN FALSE
    ELSE IF IsExpired(m[key], t) THEN FALSE
    ELSE TRUE

MemoryStorage_Keys(m, t) == {k \in DOMAIN m : ~IsExpired(m[k], t)}

MemoryStorage_Clear(m) == [data |-> EmptyMap, err |-> NoError]

----------------------------------------------------------------------------
(* encoding/json on a storage.Value: Data is written as null (nil slice) or *)
(* as a base64 string, Expiration as a number.                              *)

\* (mutant) a nil Data written as the empty string instead of null
json_Marshal_nilAsEmpty(value) ==
    [Data |-> [null |-> FALSE, b64 |-> value.Data.bytes], Expiration |-> value.Expiration]

json_Marshal(value) ==
    [Data |-> IF value.Data.nil THEN [null |-> TRUE, b64 |-> <<>>]
                                ELSE [null |-> FALSE, b64 |-> value.Data.bytes],
     Expiration |-> value.Expiration]

json_Unmarshal(text) ==
    Value(IF text.Data.null THEN NilBytes ELSE Bytes(text.Data.b64), text.Expiration)

----------------------------------------------------------------------------
(* DiskStorage: `m` is d.memory.data, `fs` the files of d.dirPath, `F` the  *)
(* files whose os.WriteFile / os.Remove fails during the call. Each         *)
(* operator gives the cache and the files after the call, what the call     *)
(* returns, and whether a file-system call failed.                          *)

\* (mutant) Delete without the os.IsNotExist test on os.Remove's error
DiskStorage_Delete_noIsNotExist(m, fs, key, F) ==
    LET m1 == MemoryStorage_Delete(m, key).data IN
    IF key \notin DOMAIN fs
    THEN [data |-> m1, files |-> fs, err |-> ErrIO, fault |-> FALSE]
    ELSE IF key \in F
         THEN [data |-> m1, files |-> fs, err |-> ErrIO, fault |-> TRUE]
         ELSE [data |-> m1, files |-> MapDelete(fs, key), err |-> NoError, fault |-> FALSE]

DiskStorage_Delete(m, fs, key, F) ==
    LET m1 == MemoryStorage_Delete(m, key).data IN
    IF key \notin DOMAIN fs
    THEN [data |-> m1, files |-> fs, err |-> NoError, fault |-> FALSE]
    ELSE IF key \in F
         THEN [data |-> m1, files |-> fs, err |-> ErrIO, fault |-> TRUE]
         ELSE [data |-> m1, files |-> MapDelete(fs, key), err |-> NoError, fault |-> FALSE]

DiskStorage_Set(m, fs, key, value, F) ==
    LET m1 == MemoryStorage_Set(m, key, value).data IN
    IF key \in F
    THEN [data |-> m1, files |-> fs, err |-> ErrIO, fault |-> TRUE]
    ELSE [data |-> m1, files |-> MapSet(fs, key, json_Marshal(value)),
          err |-> NoError, fault |-> FALSE]

\* (mutant) Get without the os.IsNotExist test on os.ReadFile's error
DiskStorage_Get_noIsNotExist(m, fs, key, t, F) ==
    LET g == MemoryStorage_Get(m, key, t) IN
    IF g.err = NoError
    THEN [data |-> g.data, files |-> fs, val |-> g.val, err |-> NoError, fault |-> FALSE]
    ELSE IF key \notin DOMAIN fs
         THEN [data |-> g.data, files |-> fs, val |-> ZeroValue, err |-> ErrIO, fault |-> FALSE]
         ELSE LET value == json_Unmarshal(fs[key]) IN
              IF IsExpired(value, t)
              THEN LET d == DiskStorage_Delete(g.data, fs, key, F) IN
                   [data |-> d.data, files |-> d.files, val |-> ZeroValue,
                    err |-> ErrKeyExpired, fault |-> d.fault]
              ELSE [data |-> MemoryStorage_Set(g.data, key, value).data, files |-> fs,
                    val |-> value, err |-> NoError, fault |-> FALSE]

DiskStorage_Get(m, fs, key, t, F) ==
    LET g == MemoryStorage_Get(m, key, t) IN
    IF g.err = NoError
    THEN [data |-> g.data, files |-> fs, val |-> g.val, err |-> NoError, fault |-> FALSE]
    ELSE IF key \notin DOMAIN fs
         THEN [data |-> g.data, files |-> fs, val |-> ZeroValue,
               err |-> ErrKeyNotFound, fault |-> FALSE]
         ELSE LET value == json_Unmarshal(fs[key]) IN
              IF IsExpired(value, t)
              THEN LET d == DiskStorage_Delete(g.data, fs, key, F) IN
                   [data |-> d.data, files |-> d.files, val |-> ZeroValue,
                    err |-> ErrKeyExpired, fault |-> d.fault]
              ELSE [data |-> MemoryStorage_Set(g.data, key, value).data, files |-> fs,
                    val |-> value, err |-> NoError, fault |-> FALSE]

DiskStorage_Has(m, fs, key, t, F) ==
    IF MemoryStorage_Has(m, key, t)
    THEN [data |-> m, files |-> fs, ok |-> TRUE, fault |-> FALSE]
    ELSE IF key \notin DOMAIN fs
         THEN [data |-> m, files |-> fs, ok |-> FALSE, fault |-> FALSE]
         ELSE LET value == json_Unmarshal(fs[key]) IN
              IF IsExpired(value, t)
              THEN LET d == DiskStorage_Delete(m, fs, key, F) IN
                   [data |-> d.data, files |-> d.files, ok |-> FALSE, fault |-> d.fault]
              ELSE [data |-> MemoryStorage_Set(m, key, value).data, files |-> fs,
                    ok |-> TRUE, fault |-> FALSE]

\* the loop of loadFromDisk from the i-th directory entry on
RECURSIVE loadFromDisk_loop(_, _, _, _, _, _)
loadFromDisk_loop(i, m, fs, t, F, fault) ==
    IF i > Len(KeySeq)
    THEN [data |-> m, files |-> fs, fault |-> fault]
    ELSE LET k == KeySeq[i] IN
         IF k \notin DOMAIN fs
         THEN loadFromDisk_loop(i + 1, m, fs, t, F, fault)
         ELSE LET value == json_Unmarshal(fs[k]) IN
              IF IsExpired(value, t)
              THEN IF k \in F
                   THEN loadFromDisk_loop(i + 1, m, fs, t, F, TRUE)
                   ELSE loadFromDisk_loop(i + 1, m, MapDelete(fs, k), t, F, fault)
              ELSE loadFromDisk_loop(i + 1, MemoryStorage_Set(m, k, value).data,
                                     fs, t, F, fault)

loadFromDisk(m, fs, t, F) == loadFromDisk_loop(1, m, fs, t, F, FALSE)

NewDiskStorage(fs, t, F) == loadFromDisk(EmptyMap, fs, t, F)

DiskStorage_Keys(m, fs, t, F) ==
    LET l == loadFromDisk(m, fs, t, F) IN
    [data |-> l.data, files |-> l.files,
     keys |-> MemoryStorage_Keys(l.data, t), fault |-> l.fault]

\* the loop of Clear from the i-th directory entry on
RECURSIVE DiskStorage_Clear_loop(_, _, _)
DiskStorage_Clear_loop(i, fs, F) ==
    IF i > Len(KeySeq)
    THEN [files |-> fs, err |-> NoError, fault |-> FALSE]
    ELSE LET k == KeySeq[i] IN
         IF k \notin DOMAIN fs
         THEN DiskStorage_Clear_loop(i + 1, fs, F)
         ELSE IF k \in F
              THEN [files |-> fs, err |-> ErrIO, fault |-> TRUE]
              ELSE DiskStorage_Clear_loop(i + 1, MapDelete(fs, k), F)

\* (mutant) Clear that empties the cache and leaves the files
DiskStorage_Clear_cacheOnly(m, fs, F) ==
    [data |-> MemoryStorage_Clear(m).data, files |-> fs, err |-> NoError, fault |-> FALSE]

DiskStorage_Clear(m, fs, F) ==
    LET c == DiskStorage_Clear_loop(1, fs, F) IN
    [data |-> MemoryStorage_Clear(m).data, files |-> c.files,
     err |-> c.err, fault |-> c.fault]

----------------------------------------------------------------------------
(* The Storage interface, dispatched on the backend: `b` is the backend,    *)
(* every operator returns the same record shape for both.                   *)

Storage_Get(b, m, fs, key, t, F) ==
    IF b = "memory"
    THEN LET g == MemoryStorage_Get(m, key, t) IN
         [data |-> g.data, files |-> fs, val |-> g.val, err |-> g.err, fault |-> FALSE]
    ELSE DiskStorage_Get(m, fs, key, t, F)

Storage_Set(b, m, fs, key, value, F) ==
    IF b = "memory"
    THEN LET s == MemoryStorage_Set(m, key, value) IN
         [data |-> s.data, files |-> fs, err |-> s.err, fault |-> FALSE]
    ELSE DiskStorage_Set(m, fs, key, value, F)

Storage_Delete(b, m, fs, key, F) ==
    IF b = "memory"
    THEN LET s == MemoryStorage_Delete(m, key) IN
         [data |-> s.data, files |-> fs, err |-> s.err, fault |-> FALSE]
    ELSE DiskStorage_Delete(m, fs, key, F)

Storage_Has(b, m, fs, key, t, F) ==
    IF b = "memory"
    THEN [data |-> m, files |-> fs, ok |-> MemoryStorage_Has(m, key, t), fault |-> FALSE]
    ELSE DiskStorage_Has(m, fs, key, t, F)

Storage_Keys(b, m, fs, t, F) ==
    IF b = "memory"
    THEN [data |-> m, files |-> fs, keys |-> MemoryStorage_Keys(m, t), fault |-> FALSE]
    ELSE DiskStorage_Keys(m, fs, t, F)

Storage_Clear(b, m, fs, F) ==
    IF b = "memory"
    THEN LET s == MemoryStorage_Clear(m) IN
         [data |-> s.data, files |-> fs, err |-> s.err, fault |-> FALSE]
    ELSE DiskStorage_Clear(m, fs, F)

----------------------------------------------------------------------------
(* The consensus Node: errors, commands and the FSM *)

\* maximum number of entries in the node's log
MaxLog == 2

ErrNotLeader == "not the leader"

ErrTimeout == "timeout"

\* the error values of the embedded consensus library (github.com/hashicorp/raft),
\* which are not the package's own
raft_ErrNotLeader == "node is not the leader"

raft_ErrLeadershipLost == "leadership lost while committing log"

raft_ErrEnqueueTimeout == "timed out enqueuing operation"

Command(op, key, value) == [Value |-> value, Op |-> op, Key |-> key]

\* values the Node's clients write
NodeValues == {Value(Bytes(<<7>>), 0), Value(Bytes(<<7>>), 2)}

\* keys the Node's clients write and read
NodeKeys == {"a"}

Commands ==
    {Command("set", k, v) : k \in NodeKeys, v \in NodeValues}
        \cup {Command("delete", k, ZeroValue) : k \in NodeKeys}

\* FSM.Apply on a decoded Command: the store after it and the value it returns
FSM_Apply(b, m, fs, cmd, F) ==
    IF cmd.Op = "set"
    THEN LET r == Storage_Set(b, m, fs, cmd.Key, cmd.Value, F) IN
         [data |-> r.data, files |-> r.files, resp |-> r.err]
    ELSE IF cmd.Op = "delete"
    THEN LET r == Storage_Delete(b, m, fs, cmd.Key, F) IN
         [data |-> r.data, files |-> r.files, resp |-> r.err]
    ELSE IF cmd.Op = "deleteAll"
    THEN LET r == Storage_Clear(b, m, fs, F) IN
         [data |-> r.data, files |-> r.files, resp |-> r.err]
    ELSE [data |-> m, files |-> fs, resp |-> NoError]

\* no Node.Set / Node.Delete call in progress
NodeIdle ==
    [err |-> NoError, cmd |-> Command("none", NoKey, ZeroValue), resp |-> NoError,
     pc |-> "idle", leaderAtCheck |-> FALSE, atApply |-> "none", appended |-> FALSE]

\* MemoryStorage.Close clears the map; DiskStorage.Close does nothing
MemoryStorage_Close(m) == MemoryStorage_Clear(m)

DiskStorage_Close(m, fs) == [data |-> m, files |-> fs, err |-> NoError]

Storage_Close(b, m, fs) ==
    IF b = "memory"
    THEN LET s == MemoryStorage_Close(m) IN [data |-> s.data, files |-> fs, err |-> s.err]
    ELSE DiskStorage_Close(m, fs)

\* the map of the latest acknowledged writes after one more command
Acked(a, cmd) ==
    IF cmd.Op = "set" THEN MapSet(a, cmd.Key, cmd.Value)
    ELSE IF cmd.Op = "delete" THEN MapDelete(a, cmd.Key)
    ELSE a

----------------------------------------------------------------------------
(* Node.WaitForLeader: constants and the call record *)

\* time is counted in units of 100 ms
leaderWaitDelay == 1

maxLeaderWait == 100

\* time.Sleep(d) returns after d, or up to MaxSlack units later
MaxSlack == 1

NoLeader == ""

LeaderAddrs == {NoLeader, "node1:7000"}

\* no WaitForLeader call in progress
WaitIdle == [err |-> NoError, pc |-> "idle", timeout |-> 0, leader |-> NoLeader]

----------------------------------------------------------------------------
(* The consistent-hash ring (package consistenthash) *)

\* replicas passed to consistenthash.New
replicas == 3

\* at most MaxAdds * replicas positions are on the ring at a time
MaxAdds == 3

\* a Go string of decimal digits is the sequence of its digits; "" is <<>>
EmptyString == <<>>

\* strconv.Itoa(i) for 0 <= i < 10
strconv_Itoa(i) == <<i>>

\* strconv.Atoi of a string of digits
RECURSIVE strconv_Atoi(_)
strconv_Atoi(str) ==
    IF str = <<>> THEN 0
    ELSE 10 * strconv_Atoi(SubSeq(str, 1, Len(str) - 1)) + str[Len(str)]

\* the Hash the ring is built with: the number the string spells (every
\* number here is below 2^32, so the conversion to uint32 and back changes
\* nothing)
hash(str) == strconv_Atoi(str)

\* node IDs given to Add / Remove, and keys looked up
RingNodes == {<<2>>, <<4>>, <<6>>, <<0, 2>>, <<1, 2>>, <<2, 2>>}

LookupKeys == {<<2>>, <<1, 1>>, <<1, 2>>, <<2, 3>>, <<2, 7>>}

\* consistenthash.New: no positions
EmptyHashMap == [p \in {} |-> EmptyString]

Map(keys, hm) == [keys |-> keys, hashMap |-> hm]

\* sort.Ints
RECURSIVE sort_Ints(_)
sort_Ints(seq) ==
    IF seq = <<>> THEN <<>>
    ELSE LET i == CHOOSE j \in 1..Len(seq) : \A l \in 1..Len(seq) : seq[j] <= seq[l]
             rest == SubSeq(seq, 1, i - 1) \o SubSeq(seq, i + 1, Len(seq))
         IN <<seq[i]>> \o sort_Ints(rest)

\* the inner loop of Map.Add for one key, from replica i on
RECURSIVE Map_Add_loop(_, _, _)
Map_Add_loop(m, key, i) ==
    IF i >= replicas THEN m
    ELSE LET h == hash(strconv_Itoa(i) \o key) IN
         Map_Add_loop(Map(Append(m.keys, h),
                          [p \in DOMAIN m.hashMap \cup {h} |->
                              IF p = h THEN key ELSE m.hashMap[p]]),
                      key, i + 1)

\* Map.Add(key)
Map_Add(m, key) ==
    LET a == Map_Add_loop(m, key, 0) IN Map(sort_Ints(a.keys), a.hashMap)

\* sort.Search(n, f) with f(i) = (keys[i] >= h), on 0-based indexes i, j
RECURSIVE sort_Search(_, _, _, _)
sort_Search(keys, h, i, j) ==
    IF i < j
    THEN LET mid == (i + j) \div 2 IN
         IF ~(keys[mid + 1] >= h)
         THEN sort_Search(keys, h, mid + 1, j)
         ELSE sort_Search(keys, h, i, mid)
    ELSE i

\* (mutant) Map.Get without the wrap to the first position
Map_Get_noWrap(m, key) ==
    IF Len(m.keys) = 0 THEN EmptyString
    ELSE LET idx == sort_Search(m.keys, hash(key), 0, Len(m.keys)) IN
         IF idx = Len(m.keys) THEN EmptyString
         ELSE IF m.keys[idx + 1] \in DOMAIN m.hashMap
              THEN m.hashMap[m.keys[idx + 1]] ELSE EmptyString

\* Map.Get(key); a position hashMap has no entry for gives ""
Map_Get(m, key) ==
    IF Len(m.keys) = 0 THEN EmptyString
    ELSE LET idx0 == sort_Search(m.keys, hash(key), 0, Len(m.keys))
             idx == IF idx0 = Len(m.keys) THEN 0 ELSE idx0
         IN IF m.keys[idx + 1] \in DOMAIN m.hashMap
            THEN m.hashMap[m.keys[idx + 1]] ELSE EmptyString

\* the index of the first position equal to h, 0 when there is none
FirstIndex(keys, h) ==
    IF \E j \in 1..Len(keys) : keys[j] = h
    THEN CHOOSE j \in 1..Len(keys) : keys[j] = h /\ \A l \in 1..(j - 1) : keys[l] # h
    ELSE 0

\* Map.Remove(key), from replica i on
RECURSIVE Map_Remove_loop(_, _, _)
Map_Remove_loop(m, key, i) ==
    IF i >= replicas THEN m
    ELSE LET h == hash(strconv_Itoa(i) \o key)
             idx == FirstIndex(m.keys, h)
         IN IF idx # 0
            THEN Map_Remove_loop(
                     Map(SubSeq(m.keys, 1, idx - 1) \o SubSeq(m.keys, idx + 1, Len(m.keys)),
                         [p \in DOMAIN m.hashMap \ {h} |-> m.hashMap[p]]),
                     key, i + 1)
            ELSE Map_Remove_loop(m, key, i + 1)

Map_Remove(m, key) == Map_Remove_loop(m, key, 0)

\* Map.GetAll: the distinct values of hashMap (as a set: the order of the
\* slice is the map's iteration order)
Map_GetAll(m) == {m.hashMap[p] : p \in DOMAIN m.hashMap}

----------------------------------------------------------------------------
(* The replicated state machine of internal/raft/fsm.go: Apply on the Data  *)
(* of a log entry, Snapshot, Persist and Restore.                           *)

\* the error of encoding/json on bytes that are not the expected document
ErrJSON == "json.SyntaxError"

\* json.Marshal of a Command: the Data of a log entry
json_MarshalCommand(cmd) ==
    [key |-> cmd.Key, value |-> json_Marshal(cmd.Value), op |-> cmd.Op, valid |-> TRUE]

\* the Data of a log entry that is not the JSON of a Command
Undecodable ==
    [key |-> NoKey, value |-> json_Marshal(ZeroValue), op |-> "", valid |-> FALSE]

\* json.Unmarshal(log.Data, &cmd)
json_UnmarshalCommand(d) ==
    IF d.valid
    THEN [err |-> NoError, cmd |-> Command(d.op, d.key, json_Unmarshal(d.value))]
    ELSE [err |-> ErrJSON, cmd |-> Command("", NoKey, ZeroValue)]

\* (mutant) Apply that treats every tag it does not know as "deleteAll"
FSM_ApplyLog_unknownClears(b, m, fs, d, F) ==
    LET u == json_UnmarshalCommand(d) IN
    IF u.err # NoError
    THEN [data |-> m, files |-> fs, resp |-> u.err]
    ELSE IF u.cmd.Op \in {"set", "delete"}
         THEN FSM_Apply(b, m, fs, u.cmd, F)
         ELSE FSM_Apply(b, m, fs, Command("deleteAll", NoKey, ZeroValue), F)

\* (mutant) Apply that returns nil whatever the store returned
FSM_ApplyLog_swallowErrors(b, m, fs, d, F) ==
    LET u == json_UnmarshalCommand(d) IN
    IF u.err # NoError
    THEN [data |-> m, files |-> fs, resp |-> u.err]
    ELSE LET r == FSM_Apply(b, m, fs, u.cmd, F) IN
         [data |-> r.data, files |-> r.files, resp |-> NoError]

\* FSM.Apply(log): an entry that does not decode returns the decoding error
\* before the store is touched
FSM_ApplyLog(b, m, fs, d, F) ==
    LET u == json_UnmarshalCommand(d) IN
    IF u.err # NoError
    THEN [data |-> m, files |-> fs, resp |-> u.err]
    ELSE FSM_Apply(b, m, fs, u.cmd, F)

\* the entries of a log applied in order, from the i-th on, to the store
\* (m, fs) of backend b, every file-system call succeeding
RECURSIVE FSM_Replay(_, _, _, _, _)
FSM_Replay(b, m, fs, entries, i) ==
    IF i > Len(entries)
    THEN [data |-> m, files |-> fs]
    ELSE LET r == FSM_ApplyLog(b, m, fs, entries[i], {}) IN
         FSM_Replay(b, r.data, r.files, entries, i + 1)

\* the pairs Keys() and Get() show at time t
Pairs(b, m, fs, t) ==
    LET ks == {k \in Keys : Storage_Get(b, m, fs, k, t, {}).err = NoError} IN
    [k \in ks |-> Storage_Get(b, m, fs, k, t, {}).val]

\* the loop of Snapshot: Get of every key left, kept when it returns no error
RECURSIVE FSM_Snapshot_loop(_, _, _, _, _, _, _)
FSM_Snapshot_loop(b, m, fs, left, t, F, acc) ==
    IF left = {}
    THEN [data |-> m, files |-> fs, snapshot |-> acc]
    ELSE LET k == CHOOSE x \in left : TRUE
             g == Storage_Get(b, m, fs, k, t, F)
         IN  FSM_Snapshot_loop(b, g.data, g.files, left \ {k}, t, F,
                               IF g.err = NoError THEN MapSet(acc, k, g.val) ELSE acc)

\* FSM.Snapshot with nothing else running: Keys(), then Get of each key
FSM_Snapshot(b, m, fs, t, F) ==
    LET ks == Storage_Keys(b, m, fs, t, F) IN
    FSM_Snapshot_loop(b, ks.data, ks.files, ks.keys, t, F, EmptyMap)

\* (mutant) Persist that writes every Expiration as 0
fsmSnapshot_Persist_noExpiration(snapshot) ==
    [valid |-> TRUE,
     pairs |-> [k \in DOMAIN snapshot |-> json_Marshal(Value(snapshot[k].Data, 0))]]

\* fsmSnapshot.Persist: the JSON document of the map, written to the sink
fsmSnapshot_Persist(snapshot) ==
    [valid |-> TRUE, pairs |-> [k \in DOMAIN snapshot |-> json_Marshal(snapshot[k])]]

\* a snapshot stream that is not the JSON document of a map
CorruptStream == [valid |-> FALSE, pairs |-> [k \in {} |-> json_Marshal(ZeroValue)]]

\* the loop of Restore: Set of every pair, an error is logged and skipped
RECURSIVE FSM_Restore_loop(_, _, _, _, _, _)
FSM_Restore_loop(b, m, fs, pairs, left, F) ==
    IF left = {}
    THEN [data |-> m, files |-> fs]
    ELSE LET k == CHOOSE x \in left : TRUE
             s == Storage_Set(b, m, fs, k, json_Unmarshal(pairs[k]), F)
         IN  FSM_Restore_loop(b, s.data, s.files, pairs, left \ {k}, F)

\* FSM.Restore: Clear first, then decode the stream, then Set every pair;
\* Fc are the files whose removal fails, Fs the files whose write fails
FSM_Restore(b, m, fs, stream, Fc, Fs) ==
    LET c == Storage_Clear(b, m, fs, Fc) IN
    IF c.err # NoError
    THEN [data |-> c.data, files |-> c.files, err |-> c.err]
    ELSE IF ~stream.valid
         THEN [data |-> c.data, files |-> c.files, err |-> ErrJSON]
         ELSE LET r == FSM_Restore_loop(b, c.data, c.files, stream.pairs,
                                        DOMAIN stream.pairs, Fs)
              IN  [data |-> r.data, files |-> r.files, err |-> NoError]

\* no Snapshot call so far
SnapIdle ==
    [data |-> EmptyMap, keys |-> {}, pc |-> "none", index |-> 0, seen |-> {},
     alone |-> TRUE]

----------------------------------------------------------------------------
(* The Storage methods as the goroutines run them: every call is the list   *)
(* of steps it has left, a step being a lock operation of sync.RWMutex or   *)
(* the statements run between two lock operations. A method call puts the   *)
(* callee's steps in front of the caller's; a deferred unlock is the last   *)
(* step of its method.                                                      *)

Goroutines == {"g1", "g2"}

NoGoroutine == ""

\* one step: `i` names it, `arg` is the mutex of a lock operation
Ins(i, arg, key, val) == [i |-> i, key |-> key, val |-> val, arg |-> arg]

LockOp(i, mutex) == Ins(i, mutex, NoKey, ZeroValue)

\* a goroutine that has made no call
NoCall ==
    [key |-> NoKey, err |-> NoError, val |-> ZeroValue, op |-> "none", todo |-> <<>>,
     during |-> {}]

NoCalls == [g \in Goroutines |-> NoCall]

\* a sync.RWMutex nobody holds: w is the writer, r the read locks each
\* goroutine holds, q the goroutines inside Lock() waiting for the readers
RWMutex == [r |-> [g \in Goroutines |-> 0], w |-> NoGoroutine, q |-> {}]

Unlocked == [memory |-> RWMutex, disk |-> RWMutex]

\* MemoryStorage.Set, Delete, Clear, Has, Keys: lock, statements, deferred unlock
Code_MemoryStorage_write(i, key, val) ==
    <<LockOp("Lock", "memory"), Ins(i, "", key, val), LockOp("Unlock", "memory")>>

Code_MemoryStorage_read(i, key) ==
    <<LockOp("RLock", "memory"), Ins(i, "", key, ZeroValue), LockOp("RUnlock", "memory")>>

\* (mutant) the expired branch of MemoryStorage.Get calling Delete with the
\* read lock still held
Code_MemoryStorage_Get_expired_keepRLock(key) ==
    Code_MemoryStorage_write("m.delete", key, ZeroValue)

\* the expired branch of MemoryStorage.Get: RUnlock, m.Delete(key), RLock
Code_MemoryStorage_Get_expired(key) ==
    <<LockOp("RUnlock", "memory")>>
        \o Code_MemoryStorage_write("m.delete", key, ZeroValue)
        \o <<LockOp("RLock", "memory")>>

\* DiskStorage.Set, Delete, Clear: the cache first, then the files under d.mutex
Code_DiskStorage_write(mi, di, key, val) ==
    Code_MemoryStorage_write(mi, key, val)
        \o <<LockOp("Lock", "disk"), Ins(di, "", key, val), LockOp("Unlock", "disk")>>

\* DiskStorage.Get and Has: the cache first, then d.test decides on the file
Code_DiskStorage_read(mi, key) ==
    Code_MemoryStorage_read(mi, key) \o <<Ins("d.test", "", key, ZeroValue)>>

\* the expired branch of DiskStorage.Get and Has: RUnlock, d.Delete(key), RLock
Code_DiskStorage_expired(key) ==
    <<LockOp("RUnlock", "disk")>>
        \o Code_DiskStorage_write("m.delete", "d.remove", key, ZeroValue)
        \o <<LockOp("RLock", "disk")>>

\* DiskStorage.Keys: loadFromDisk under d.mutex, then d.memory.Keys()
Code_DiskStorage_Keys ==
    <<LockOp("Lock", "disk")>>
        \o [n \in 1..Len(KeySeq) |-> Ins("d.load", "", KeySeq[n], ZeroValue)]
        \o <<LockOp("Unlock", "disk")>>
        \o Code_MemoryStorage_read("m.keys", NoKey)

\* the steps of a call of the Storage interface on backend b
Code(b, op, key, val) ==
    IF b = "memory"
    THEN CASE op = "Get" -> Code_MemoryStorage_read("m.get", key)
           [] op = "Has" -> Code_MemoryStorage_read("m.has", key)
           [] op = "Keys" -> Code_MemoryStorage_read("m.keys", NoKey)
           [] op = "Set" -> Code_MemoryStorage_write("m.set", key, val)
           [] op = "Delete" -> Code_MemoryStorage_write("m.delete", key, val)
           [] op = "Clear" -> Code_MemoryStorage_write("m.clear", NoKey, val)
    ELSE CASE op = "Get" -> Code_DiskStorage_read("m.get", key)
           [] op = "Has" -> Code_DiskStorage_read("m.has", key)
           [] op = "Keys" -> Code_DiskStorage_Keys
           [] op = "Set" -> Code_DiskStorage_write("m.set", "d.write", key, val)
           [] op = "Delete" -> Code_DiskStorage_write("m.delete", "d.remove", key, val)
           [] op = "Clear" -> Code_DiskStorage_write("m.clear", "d.removeAll", NoKey, val)

\* the goroutine holds the mutex, for reading or for writing
Holds(l, g) == l.r[g] > 0 \/ l.w = g

\* the next step of the goroutine does not have to wait
CanStep(c, l) ==
    /\ c.todo # <<>>
    /\ LET s == Head(c.todo) IN
       /\ s.i # "fatal"
       /\ s.i = "Acquire" => l[s.arg].w = NoGoroutine /\ \A g \in Goroutines : l[s.arg].r[g] = 0
       /\ s.i = "RLock" => l[s.arg].w = NoGoroutine /\ l[s.arg].q = {}

\* the lock operation s of goroutine g on the mutexes l: Lock() announces the
\* writer and then waits (Acquire); unlocking a mutex that is not held is
\* the fatal error of sync
sync_RWMutex(l, g, s) ==
    LET x == l[s.arg] IN
    CASE s.i = "Lock" ->
           [mu |-> [l EXCEPT ![s.arg].q = @ \cup {g}],
            next |-> <<LockOp("Acquire", s.arg)>>]
      [] s.i = "Acquire" ->
           [mu |-> [l EXCEPT ![s.arg].w = g, ![s.arg].q = @ \ {g}], next |-> <<>>]
      [] s.i = "RLock" ->
           [mu |-> [l EXCEPT ![s.arg].r[g] = @ + 1], next |-> <<>>]
      [] s.i = "RUnlock" ->
           IF x.r[g] > 0
           THEN [mu |-> [l EXCEPT ![s.arg].r[g] = @ - 1], next |-> <<>>]
           ELSE [mu |-> l, next |-> <<LockOp("fatal", s.arg)>>]
      [] s.i = "Unlock" ->
           IF x.w = g
           THEN [mu |-> [l EXCEPT ![s.arg].w = NoGoroutine], next |-> <<>>]
           ELSE [mu |-> l, next |-> <<LockOp("fatal", s.arg)>>]

\* the statements s of MemoryStorage on the map m at time t, err being the
\* error the goroutine's call returns so far (Set, Delete and Clear return
\* nil, which a caller inside Get or Has ignores): the map after them, the
\* error, the steps put in front
MemoryStorage_step(m, s, t, err) ==
    CASE s.i = "m.set" ->
           [data |-> MemoryStorage_Set(m, s.key, s.val).data, err |-> err, next |-> <<>>]
      [] s.i = "m.delete" ->
           [data |-> MemoryStorage_Delete(m, s.key).data, err |-> err, next |-> <<>>]
      [] s.i = "m.clear" ->
           [data |-> MemoryStorage_Clear(m).data, err |-> err, next |-> <<>>]
      [] s.i = "m.get" ->
           IF s.key \notin DOMAIN m
           THEN [data |-> m, err |-> ErrKeyNotFound, next |-> <<>>]
           ELSE IF IsExpired(m[s.key], t)
                THEN [data |-> m, err |-> ErrKeyExpired,
                      next |-> Code_MemoryStorage_Get_expired(s.key)]
                ELSE [data |-> m, err |-> NoError, next |-> <<>>]
      [] s.i = "m.has" ->
           [data |-> m, next |-> <<>>,
            err |-> IF MemoryStorage_Has(m, s.key, t) THEN NoError ELSE ErrKeyNotFound]
      [] s.i = "m.keys" ->
           [data |-> m, err |-> err, next |-> <<>>]

\* the statements s of DiskStorage on the files fs at time t, err being what
\* the cache returned: the files after them, the error, the steps put in front
DiskStorage_step(fs, s, t, err) ==
    CASE s.i = "d.write" ->
           [files |-> MapSet(fs, s.key, json_Marshal(s.val)), err |-> err, next |-> <<>>]
      [] s.i = "d.remove" ->
           [files |-> MapDelete(fs, s.key), err |-> err, next |-> <<>>]
      [] s.i = "d.removeAll" ->
           [files |-> EmptyMap, err |-> err, next |-> <<>>]
      [] s.i = "d.test" ->
           [files |-> fs, err |-> err,
            next |-> IF err = NoError
                     THEN <<>>
                     ELSE <<LockOp("RLock", "disk"), Ins("d.read", "", s.key, ZeroValue),
                            LockOp("RUnlock", "disk")>>]
      [] s.i = "d.read" ->
           IF s.key \notin DOMAIN fs
           THEN [files |-> fs, err |-> ErrKeyNotFound, next |-> <<>>]
           ELSE LET value == json_Unmarshal(fs[s.key]) IN
                IF IsExpired(value, t)
                THEN [files |-> fs, err |-> ErrKeyExpired,
                      next |-> Code_DiskStorage_expired(s.key)]
                ELSE [files |-> fs, err |-> NoError,
                      next |-> Code_MemoryStorage_write("m.set", s.key, value)]
      [] s.i = "d.load" ->
           IF s.key \notin DOMAIN fs
           THEN [files |-> fs, err |-> err, next |-> <<>>]
           ELSE LET value == json_Unmarshal(fs[s.key]) IN
                IF IsExpired(value, t)
                THEN [files |-> MapDelete(fs, s.key), err |-> err, next |-> <<>>]
                ELSE [files |-> fs, err |-> err,
                      next |-> Code_MemoryStorage_write("m.set", s.key, value)]

LockSteps == {"Lock", "Acquire", "RLock", "RUnlock", "Unlock"}

MemorySteps == {"m.set", "m.delete", "m.clear", "m.get", "m.has", "m.keys"}

----------------------------------------------------------------------------
(* The storage engine as a state machine: one client calls the Storage      *)
(* interface of one store, one call at a time, while the clock advances.    *)

EmptyDir == [k \in {} |-> json_Marshal(ZeroValue)]

Present(m, fs, key) == key \in DOMAIN m \/ key \in DOMAIN fs

Returned(op, key, val, err, ok, keys, had) ==
    [op |-> op, key |-> key, val |-> val, err |-> err, ok |-> ok, keys |-> keys, had |-> had]

StorageInit ==
    /\ backend \in {"memory", "disk"}
    /\ data = EmptyMap
    /\ files = EmptyDir
    /\ now = 1
    /\ last = Returned("New", NoKey, ZeroValue, NoError, FALSE, {}, FALSE)
    /\ failed = FALSE
    /\ ioFault = FALSE
    \* the storage engine used on its own: no Node call is ever made
    /\ role = "Follower"
    /\ raftLog = <<>>
    /\ call = NodeIdle
    /\ quorum = TRUE
    /\ pending = <<>>
    /\ acked = EmptyMap
    /\ wclock = 0
    /\ wait = WaitIdle
    /\ leaderAddr = NoLeader
    /\ ringKeys = <<>>
    /\ hashMap = EmptyHashMap
    /\ members = {}
    /\ snap = SnapIdle
    /\ gor = NoCalls
    /\ mu = Unlocked

Set(key, value, F) ==
    LET r == Storage_Set(backend, data, files, key, value, F) IN
    /\ data' = r.data
    /\ files' = r.files
    /\ last' = Returned("Set", key, value, r.err, FALSE, {}, Present(data, files, key))
    /\ failed' = (failed \/ r.err # NoError)
    /\ ioFault' = (ioFault \/ r.fault)
    /\ UNCHANGED <<backend, now>>
    /\ UNCHANGED <<nodeVars, waitVars, ringVars, snapVars, lockVars>>

Get(key, F) ==
    LET r == Storage_Get(backend, data, files, key, now, F) IN
    /\ data' = r.data
    /\ files' = r.files
    /\ last' = Returned("Get", key, r.val, r.err, FALSE, {}, Present(data, files, key))
    /\ ioFault' = (ioFault \/ r.fault)
    /\ UNCHANGED <<backend, now, failed>>
    /\ UNCHANGED <<nodeVars, waitVars, ringVars, snapVars, lockVars>>

Delete(key, F) ==
    LET r == Storage_Delete(backend, data, files, key, F) IN
    /\ data' = r.data
    /\ files' = r.files
    /\ last' = Returned("Delete", key, ZeroValue, r.err, FALSE, {}, Present(data, files, key))
    /\ failed' = (failed \/ r.err # NoError)
    /\ ioFault' = (ioFault \/ r.fault)
    /\ UNCHANGED <<backend, now>>
    /\ UNCHANGED <<nodeVars, waitVars, ringVars, snapVars, lockVars>>

Has(key, F) ==
    LET r == Storage_Has(backend, data, files, key, now, F) IN
    /\ data' = r.data
    /\ files' = r.files
    /\ last' = Returned("Has", key, ZeroValue, NoError, r.ok, {}, Present(data, files, key))
    /\ ioFault' = (ioFault \/ r.fault)
    /\ UNCHANGED <<backend, now, failed>>
    /\ UNCHANGED <<nodeVars, waitVars, ringVars, snapVars, lockVars>>

KeysCall(F) ==
    LET r == Storage_Keys(backend, data, files, now, F) IN
    /\ data' = r.data
    /\ files' = r.files
    /\ last' = Returned("Keys", NoKey, ZeroValue, NoError, FALSE, r.keys, FALSE)
    /\ ioFault' = (ioFault \/ r.fault)
    /\ UNCHANGED <<backend, now, failed>>
    /\ UNCHANGED <<nodeVars, waitVars, ringVars, snapVars, lockVars>>

Clear(F) ==
    LET r == Storage_Clear(backend, data, files, F) IN
    /\ data' = r.data
    /\ files' = r.files
    /\ last' = Returned("Clear", NoKey, ZeroValue, r.err, FALSE, {},
                        \E k \in Keys : Present(data, files, k))
    /\ failed' = (failed \/ r.err # NoError)
    /\ ioFault' = (ioFault \/ r.fault)
    /\ UNCHANGED <<backend, now>>
    /\ UNCHANGED <<nodeVars, waitVars, ringVars, snapVars, lockVars>>

\* the process stops and a new DiskStorage is constructed on the same directory
Restart(F) ==
    /\ backend = "disk"
    /\ LET r == NewDiskStorage(files, now, F) IN
         /\ data' = r.data
         /\ files' = r.files
         /\ ioFault' = (ioFault \/ r.fault)
    /\ last' = Returned("NewDiskStorage", NoKey, ZeroValue, NoError, FALSE, {}, FALSE)
    /\ UNCHANGED <<backend, now, failed>>
    /\ UNCHANGED <<nodeVars, waitVars, ringVars, snapVars, lockVars>>

Tick ==
    /\ now < MaxTime
    /\ now' = now + 1
    /\ UNCHANGED <<backend, data, files, last, failed, ioFault>>
    /\ UNCHANGED <<nodeVars, waitVars, ringVars, snapVars, lockVars>>

StorageNext ==
    \/ \E key \in Keys, value \in Values : \E F \in KeyFaults(backend, key) : Set(key, value, F)
    \/ \E key \in Keys : \E F \in KeyFaults(backend, key) : Get(key, F)
    \/ \E key \in Keys : \E F \in KeyFaults(backend, key) : Delete(key, F)
    \/ \E key \in Keys : \E F \in KeyFaults(backend, key) : Has(key, F)
    \/ \E F \in FaultSets(backend) : KeysCall(F)
    \/ \E F \in FaultSets(backend) : Clear(F)
    \/ \E F \in FaultSets(backend) : Restart(F)
    \/ Tick

SpecStorage == StorageInit /\ [][StorageNext]_vars

----------------------------------------------------------------------------
(* Storage engine properties (checked under SpecStorage) *)

\* the value a store shows for a key it holds: the cache entry, else the file
Held(m, fs, key) == IF key \in DOMAIN m THEN m[key] ELSE json_Unmarshal(fs[key])

HoldsExpired(m, fs, key, t) == Present(m, fs, key) /\ IsExpired(Held(m, fs, key), t)

\* C1: on both backends, once Set(k, v) with v.Expiration = 0 has run
\* (whatever k held before, whatever Set returned), Get(k) at any later time,
\* with no call in between, returns exactly v and no error.
C1_SetThenGet ==
    (last.op = "Set" /\ last.val.Expiration = 0) =>
        \A F \in KeyFaults(backend, last.key) :
            LET g == Storage_Get(backend, data, files, last.key, now, F) IN
            g.err = NoError /\ g.val = last.val

C1_Witness ==
    /\ backend = "disk"
    /\ last.op = "Set" /\ last.err = NoError /\ last.had
    /\ last.val = Value(Bytes(<<7>>), 0)
    /\ now > 1

\* C2: on both backends Get(k) returns ErrKeyNotFound and the zero Value
\* whenever k is absent, and k is absent in a new store, after a Delete(k)
\* that returned nil and after a Clear that returned nil.
C2_AbsentIsNotFound ==
    /\ \A k \in Keys : ~Present(data, files, k) =>
          \A F \in KeyFaults(backend, k) :
              LET g == Storage_Get(backend, data, files, k, now, F) IN
              g.err = ErrKeyNotFound /\ g.val = ZeroValue
    /\ (last.op = "New") => \A k \in Keys : ~Present(data, files, k)
    /\ (last.op = "Delete" /\ last.err = NoError) => ~Present(data, files, last.key)
    /\ (last.op = "Clear" /\ last.err = NoError) => \A k \in Keys : ~Present(data, files, k)

C2_Witness ==
    /\ backend = "disk"
    /\ last.op = "Delete" /\ last.err = NoError /\ last.had
    /\ \E k \in Keys : Present(data, files, k)

\* C3: on both backends, if k holds a value whose Expiration is non-zero and
\* earlier than the access time, Get(k) returns ErrKeyExpired, k's entry is
\* gone when Get returns, and Has(k) is then false. (Stated for stores no
\* file-system call of which has failed, and a Get during which none fails.)
C3_ExpiredGet ==
    \A k \in Keys :
        (~ioFault /\ HoldsExpired(data, files, k, now)) =>
            LET g == Storage_Get(backend, data, files, k, now, {}) IN
            /\ g.err = ErrKeyExpired
            /\ ~Present(g.data, g.files, k)
            /\ ~Storage_Has(backend, g.data, g.files, k, now, {}).ok

\* C4: Delete is idempotent on both backends: Delete(k) of an absent key
\* returns nil and changes nothing, any Delete(k) leaves the other keys as
\* they were, and a Delete(k) that returned nil leaves a state in which a
\* second Delete(k) returns nil and changes nothing.
C4_DeleteIdempotent ==
    \A k \in Keys : \A F \in KeyFaults(backend, k) :
        LET d1 == Storage_Delete(backend, data, files, k, F) IN
        /\ \A o \in Keys \ {k} :
              /\ (o \in DOMAIN d1.data) = (o \in DOMAIN data)
              /\ (o \in DOMAIN d1.files) = (o \in DOMAIN files)
              /\ o \in DOMAIN data => d1.data[o] = data[o]
              /\ o \in DOMAIN files => d1.files[o] = files[o]
        /\ ~Present(data, files, k) =>
              d1.err = NoError /\ d1.data = data /\ d1.files = files
        /\ d1.err = NoError =>
              \A F2 \in KeyFaults(backend, k) :
                  LET d2 == Storage_Delete(backend, d1.data, d1.files, k, F2) IN
                  d2.err = NoError /\ d2.data = d1.data /\ d2.files = d1.files

C4_Witness ==
    /\ backend = "disk"
    /\ last.op = "Delete" /\ last.err = NoError /\ ~last.had
    /\ \E k \in Keys : k \in DOMAIN data /\ k \in DOMAIN files

\* C5: on both backends, after a Clear that returned nil, Keys() is empty and
\* Get(k) returns ErrKeyNotFound for every k, whatever the cache and the
\* directory held before.
C5_ClearEmpties ==
    (last.op = "Clear" /\ last.err = NoError) =>
        /\ \A F \in FaultSets(backend) :
              Storage_Keys(backend, data, files, now, F).keys = {}
        /\ \A k \in Keys : \A F \in KeyFaults(backend, k) :
              Storage_Get(backend, data, files, k, now, F).err = ErrKeyNotFound

C5_Witness ==
    /\ backend = "disk"
    /\ last.op = "Clear" /\ last.err = NoError /\ last.had

\* C6: in every reachable state of either backend and at any time, Has(k) is
\* true exactly when Get(k) at that time returns a value and no error; it is
\* false for an absent key and for a key all of whose stored copies have
\* expired.
C6_HasMatchesGet ==
    \A k \in Keys : \A F \in KeyFaults(backend, k) :
        LET h == Storage_Has(backend, data, files, k, now, F).ok
            g == Storage_Get(backend, data, files, k, now, F) IN
        /\ h = (g.err = NoError)
        /\ ~Present(data, files, k) => ~h
        /\ ( /\ Present(data, files, k)
             /\ k \in DOMAIN data => IsExpired(data[k], now)
             /\ k \in DOMAIN files => IsExpired(json_Unmarshal(files[k]), now) ) => ~h

C6_Witness ==
    /\ backend = "disk"
    /\ last.op = "Has" /\ ~last.ok /\ last.had
    /\ \E k \in Keys : k \in DOMAIN data /\ IsExpired(data[k], now)
    /\ \E k \in Keys : k \in DOMAIN data /\ ~IsExpired(data[k], now)

\* C7: Keys() returns exactly the keys whose value is not expired at the time
\* of the call and deletes nothing: every cache entry and every file present
\* before the call, expired ones included, is present after it. (Stated for
\* stores no file-system call of which has failed.)
C7_KeysDeletesNothing ==
    ~ioFault =>
        LET r == Storage_Keys(backend, data, files, now, {}) IN
        /\ r.keys = {k \in Keys : Present(data, files, k) /\ ~HoldsExpired(data, files, k, now)}
        /\ \A k \in DOMAIN data : k \in DOMAIN r.data
        /\ \A k \in DOMAIN files : k \in DOMAIN r.files

\* C8: after DiskStorage calls of which every Set, Delete and Clear returned
\* nil, a DiskStorage constructed on the same directory holds exactly the
\* non-expired key/value pairs of the old instance (and none that has expired
\* by the time of construction).
C8_RestartKeepsPairs ==
    (backend = "disk" /\ ~failed) =>
        \A F \in FaultSets(backend) :
            NewDiskStorage(files, now, F).data =
                [k \in MemoryStorage_Keys(data, now) |-> data[k]]

C8_Witness ==
    /\ last.op = "NewDiskStorage" /\ ~failed
    /\ \E k \in Keys : k \in DOMAIN data /\ data[k].Data = NilBytes
    /\ \E k \in Keys : k \notin DOMAIN data

----------------------------------------------------------------------------
(* The Node as a state machine: clients call Node.Set / Node.Delete /       *)
(* Node.Get / Node.Keys / Node.Close while the consensus engine changes    *)
(* the node's role, appends to its log and applies committed entries to    *)
(* the store through the FSM, the network between the nodes comes and      *)
(* goes, and other nodes of the cluster lead and commit.                   *)

NodeInit ==
    /\ backend \in {"memory", "disk"}
    /\ data = EmptyMap
    /\ files = EmptyDir
    /\ now = 1
    /\ last = Returned("New", NoKey, ZeroValue, NoError, FALSE, {}, FALSE)
    /\ failed = FALSE
    /\ ioFault = FALSE
    /\ role = "Follower"
    /\ raftLog = <<>>
    /\ call = NodeIdle
    /\ quorum = TRUE
    /\ pending = <<>>
    /\ acked = EmptyMap
    /\ wclock = 0
    /\ wait = WaitIdle
    /\ leaderAddr = NoLeader
    /\ ringKeys = <<>>
    /\ hashMap = EmptyHashMap
    /\ members = {}
    /\ snap = SnapIdle
    /\ gor = NoCalls
    /\ mu = Unlocked

\* Node.Set and Node.Delete up to the call of n.raft.Apply: the role check
\* and the command built
\* (mutant) the role check rejects a Follower only
Node_submit_followerOnly(cmd) ==
    /\ call.pc = "idle"
    /\ IF role = "Follower"
       THEN call' = [NodeIdle EXCEPT !.pc = "returned", !.cmd = cmd, !.err = ErrNotLeader]
       ELSE call' = [NodeIdle EXCEPT !.pc = "submitted", !.cmd = cmd,
                                     !.leaderAtCheck = (role = "Leader")]
    /\ UNCHANGED <<role, raftLog, quorum, pending, acked>>
    /\ UNCHANGED <<storageVars, waitVars, ringVars, snapVars, lockVars>>

Node_submit(cmd) ==
    /\ call.pc = "idle"
    /\ IF role # "Leader"
       THEN call' = [NodeIdle EXCEPT !.pc = "returned", !.cmd = cmd, !.err = ErrNotLeader]
       ELSE call' = [NodeIdle EXCEPT !.pc = "submitted", !.cmd = cmd, !.leaderAtCheck = TRUE]
    /\ UNCHANGED <<role, raftLog, quorum, pending, acked>>
    /\ UNCHANGED <<storageVars, waitVars, ringVars, snapVars, lockVars>>

Node_Set(key, value) == Node_submit(Command("set", key, value))

Node_Delete(key) == Node_submit(Command("delete", key, ZeroValue))

\* Node.Get: the store's Get, whatever the node's role
Node_Get(key, F) ==
    /\ LET r == Storage_Get(backend, data, files, key, now, F) IN
         /\ data' = r.data
         /\ files' = r.files
         /\ ioFault' = (ioFault \/ r.fault)
    /\ UNCHANGED <<backend, now, last, failed>>
    /\ UNCHANGED <<nodeVars, waitVars, ringVars, snapVars, lockVars>>

\* Node.Keys: the store's Keys
Node_Keys(F) ==
    /\ LET r == Storage_Keys(backend, data, files, now, F) IN
         /\ data' = r.data
         /\ files' = r.files
         /\ ioFault' = (ioFault \/ r.fault)
    /\ UNCHANGED <<backend, now, last, failed>>
    /\ UNCHANGED <<nodeVars, waitVars, ringVars, snapVars, lockVars>>

\* Node.Close, first or repeated: n.raft.Shutdown(), whose future has no
\* error, then n.store.Close()
Node_Close ==
    /\ call.pc = "idle"
    /\ role' = "Shutdown"
    /\ LET r == Storage_Close(backend, data, files) IN
         /\ data' = r.data
         /\ files' = r.files
    /\ UNCHANGED <<raftLog, call, quorum, pending, acked>>
    /\ UNCHANGED <<backend, now, last, failed, ioFault>>
    /\ UNCHANGED <<waitVars, ringVars, snapVars, lockVars>>

\* n.raft.Apply: the engine's main loop takes the submitted command; a leader
\* appends it to the log, any other role answers the future with the
\* library's not-leader error, which f.Error() returns
raft_Apply ==
    /\ call.pc = "submitted"
    /\ IF role = "Leader"
       THEN /\ Len(raftLog) + Len(pending) < MaxLog
            /\ raftLog' = Append(raftLog, call.cmd)
            /\ call' = [call EXCEPT !.pc = "inflight", !.atApply = "leader", !.appended = TRUE]
       ELSE /\ raftLog' = raftLog
            /\ call' = [call EXCEPT !.pc = "returned", !.atApply = "notleader",
                                    !.err = raft_ErrNotLeader]
    /\ UNCHANGED <<role, quorum, pending, acked>>
    /\ UNCHANGED <<storageVars, waitVars, ringVars, snapVars, lockVars>>

\* the command is not taken by the main loop within raftTimeout
raft_EnqueueTimeout ==
    /\ call.pc = "submitted"
    /\ call' = [call EXCEPT !.pc = "returned", !.err = raft_ErrEnqueueTimeout]
    /\ UNCHANGED <<role, raftLog, quorum, pending, acked>>
    /\ UNCHANGED <<storageVars, waitVars, ringVars, snapVars, lockVars>>

\* a quorum has the entry: it is committed and applied by the FSM, whose
\* return value becomes the future's Response; f.Error() returns nil
raft_Commit(F) ==
    /\ call.pc = "inflight"
    /\ role = "Leader"
    /\ quorum
    /\ LET r == FSM_Apply(backend, data, files, call.cmd, F) IN
         /\ data' = r.data
         /\ files' = r.files
         /\ failed' = (failed \/ r.resp # NoError)
         /\ ioFault' = (ioFault \/ r.resp # NoError)
         /\ call' = [call EXCEPT !.pc = "returned", !.err = NoError, !.resp = r.resp]
    /\ acked' = Acked(acked, call.cmd)
    /\ UNCHANGED <<role, raftLog, quorum, pending>>
    /\ UNCHANGED <<backend, now, last>>
    /\ UNCHANGED <<waitVars, ringVars, snapVars, lockVars>>

\* the leader steps down (it has lost contact with a quorum for the lease
\* time, or has seen a newer term); an entry in flight is answered with
\* leadership lost
raft_LoseLeadership ==
    /\ role = "Leader"
    /\ role' = "Follower"
    /\ call' = IF call.pc = "inflight"
               THEN [call EXCEPT !.pc = "returned", !.err = raft_ErrLeadershipLost]
               ELSE call
    /\ UNCHANGED <<raftLog, quorum, pending, acked>>
    /\ UNCHANGED <<storageVars, waitVars, ringVars, snapVars, lockVars>>

raft_ElectionTimeout ==
    /\ role = "Follower"
    /\ role' = "Candidate"
    /\ UNCHANGED <<raftLog, call, quorum, pending, acked>>
    /\ UNCHANGED <<storageVars, waitVars, ringVars, snapVars, lockVars>>

\* a candidate wins only with the votes of a quorum, which it gets only if
\* its log holds every committed entry
raft_ElectionResult ==
    /\ role = "Candidate"
    /\ \/ quorum /\ pending = <<>> /\ role' = "Leader"
       \/ role' = "Follower"
    /\ UNCHANGED <<raftLog, call, quorum, pending, acked>>
    /\ UNCHANGED <<storageVars, waitVars, ringVars, snapVars, lockVars>>

\* the network cuts the node off from the majority of the cluster
net_Partition ==
    /\ quorum
    /\ quorum' = FALSE
    /\ UNCHANGED <<role, raftLog, call, pending, acked>>
    /\ UNCHANGED <<storageVars, waitVars, ringVars, snapVars, lockVars>>

\* the network is whole again (a leader that has missed a newer term steps
\* down first)
net_Heal ==
    /\ ~quorum
    /\ ~(role = "Leader" /\ pending # <<>>)
    /\ quorum' = TRUE
    /\ UNCHANGED <<role, raftLog, call, pending, acked>>
    /\ UNCHANGED <<storageVars, waitVars, ringVars, snapVars, lockVars>>

\* Node.Set / Node.Delete on another node, which leads the majority in a
\* newer term while this node does not lead a quorum: the command is
\* committed there and its client sees it succeed
raft_OtherCommit(cmd) ==
    /\ role # "Leader" \/ ~quorum
    /\ Len(raftLog) + Len(pending) < MaxLog
    /\ pending' = Append(pending, cmd)
    /\ acked' = Acked(acked, cmd)
    /\ UNCHANGED <<role, raftLog, call, quorum>>
    /\ UNCHANGED <<storageVars, waitVars, ringVars, snapVars, lockVars>>

\* a node that is not the leader receives the next committed entry from the
\* leader and applies it
raft_Replicated(F) ==
    /\ role \in {"Follower", "Candidate"}
    /\ quorum
    /\ pending # <<>>
    /\ raftLog' = Append(raftLog, Head(pending))
    /\ pending' = Tail(pending)
    /\ LET r == FSM_Apply(backend, data, files, Head(pending), F) IN
         /\ data' = r.data
         /\ files' = r.files
         /\ failed' = (failed \/ r.resp # NoError)
         /\ ioFault' = (ioFault \/ r.resp # NoError)
    /\ UNCHANGED <<role, call, quorum, acked>>
    /\ UNCHANGED <<backend, now, last>>
    /\ UNCHANGED <<waitVars, ringVars, snapVars, lockVars>>

\* the caller has its answer; the next call may start
Node_return ==
    /\ call.pc = "returned"
    /\ call' = NodeIdle
    /\ UNCHANGED <<role, raftLog, quorum, pending, acked>>
    /\ UNCHANGED <<storageVars, waitVars, ringVars, snapVars, lockVars>>

NodeNext ==
    \/ \E key \in NodeKeys, value \in NodeValues : Node_Set(key, value)
    \/ \E key \in NodeKeys : Node_Delete(key)
    \/ \E key \in NodeKeys : \E F \in KeyFaults(backend, key) : Node_Get(key, F)
    \/ \E F \in FaultSets(backend) : Node_Keys(F)
    \/ Node_Close
    \/ raft_Apply
    \/ raft_EnqueueTimeout
    \/ \E F \in KeyFaults(backend, call.cmd.Key) : raft_Commit(F)
    \/ raft_LoseLeadership
    \/ raft_ElectionTimeout
    \/ raft_ElectionResult
    \/ net_Partition
    \/ net_Heal
    \/ \E cmd \in Commands : raft_OtherCommit(cmd)
    \/ \E F \in FaultSets(backend) : raft_Replicated(F)
    \/ Node_return
    \/ Tick

SpecNode == NodeInit /\ [][NodeNext]_vars

----------------------------------------------------------------------------
(* Node properties (checked under SpecNode) *)

\* C9: whenever Node.Set or Node.Delete is called on a node whose role is
\* not Leader, the call returns ErrNotLeader at once, appends nothing to the
\* log and leaves the node's store as it was.
C9_NonLeaderRejected ==
    [][(call.pc = "idle" /\ call'.pc # "idle" /\ role # "Leader") =>
          /\ call'.pc = "returned"
          /\ call'.err = ErrNotLeader
          /\ ~call'.appended
          /\ raftLog' = raftLog
          /\ data' = data
          /\ files' = files]_vars

C9_Witness ==
    /\ call.pc = "returned" /\ ~call.leaderAtCheck
    /\ call.cmd.Op = "delete"
    /\ role = "Candidate"
    /\ call.cmd.Key \in DOMAIN data
    /\ Len(raftLog) > 0

\* C10: if the node is leader at the role check of Node.Set / Node.Delete
\* and no longer when the engine takes the command, the error the call
\* returns is the package's ErrNotLeader.
C10_NotLeaderVerbatim ==
    (call.pc = "returned" /\ call.leaderAtCheck /\ call.atApply = "notleader") =>
        call.err = ErrNotLeader

\* C11: a Node.Set / Node.Delete call whose entry is in flight on a leader
\* that cannot reach a quorum returns only with ErrTimeout, and the store is
\* then as it was.
C11_NoQuorumTimeout ==
    [][(call.pc = "inflight" /\ ~quorum /\ call'.pc = "returned") =>
          /\ call'.err = ErrTimeout
          /\ data' = data
          /\ files' = files]_vars

\* C12: when Node.Set(k, v), with v not expired, returns nil, a Node.Get(k)
\* on the same node right after it returns v and no error; when
\* Node.Delete(k) returns nil, a Node.Get(k) right after it returns
\* ErrKeyNotFound.
C12_ReadAfterWrite ==
    [][(call.pc = "inflight" /\ call'.pc = "returned" /\ call'.err = NoError
            /\ ~IsExpired(call.cmd.Value, now)) =>
          \A F \in KeyFaults(backend, call.cmd.Key) :
              LET g == Storage_Get(backend', data', files', call.cmd.Key, now', F) IN
              IF call.cmd.Op = "set"
              THEN g.err = NoError /\ g.val = call.cmd.Value
              ELSE g.err = ErrKeyNotFound]_vars

\* C13: on a node whose IsLeader() is true (and whose file system has never
\* failed), Node.Get(k) returns the value of the latest write to k that a
\* client of the cluster has seen succeed, if that value has not expired,
\* and ErrKeyNotFound if that write was a delete or there was none.
C13_LeaderReadsCurrent ==
    (role = "Leader" /\ ~ioFault) =>
        \A k \in NodeKeys :
            LET g == Storage_Get(backend, data, files, k, now, {}) IN
            IF k \in DOMAIN acked
            THEN ~IsExpired(acked[k], now) => (g.err = NoError /\ g.val = acked[k])
            ELSE g.err = ErrKeyNotFound

\* C15: a Node.Get or Node.Keys call leaves the entries of the node's store
\* (the map and the files) as they were.
C15_ReadsChangeNothing ==
    [][((\E k \in NodeKeys : \E F \in KeyFaults(backend, k) : Node_Get(k, F))
           \/ (\E F \in FaultSets(backend) : Node_Keys(F))) =>
          (data' = data /\ files' = files)]_vars

\* C16: when the store's Set / Delete fails while FSM.Apply applies the
\* command a Node.Set / Node.Delete call submitted, the call returns that
\* error.
C16_StorageErrorReturned ==
    (call.pc = "returned" /\ call.resp # NoError) => call.err = call.resp

\* the closed-node error operations on a closed Node are to fail with
ErrNodeClosed == "node closed"

\* C17: after Node.Close, Node.Get fails with the closed-node error, and so
\* does a Node.Set / Node.Delete that has returned.
C17_ClosedNodeFails ==
    role = "Shutdown" =>
        /\ \A k \in NodeKeys :
               Storage_Get(backend, data, files, k, now, {}).err = ErrNodeClosed
        /\ call.pc = "returned" => call.err = ErrNodeClosed

----------------------------------------------------------------------------
(* Node.WaitForLeader as a state machine: one call, polling n.raft.Leader() *)
(* while the engine learns and forgets the leader's address.                *)

WaitInit ==
    /\ backend = "memory"
    /\ data = EmptyMap
    /\ files = EmptyDir
    /\ now = 1
    /\ last = Returned("New", NoKey, ZeroValue, NoError, FALSE, {}, FALSE)
    /\ failed = FALSE
    /\ ioFault = FALSE
    /\ role = "Follower"
    /\ raftLog = <<>>
    /\ call = NodeIdle
    /\ quorum = TRUE
    /\ pending = <<>>
    /\ acked = EmptyMap
    /\ wclock = 0
    /\ wait = WaitIdle
    /\ leaderAddr \in LeaderAddrs
    /\ ringKeys = <<>>
    /\ hashMap = EmptyHashMap
    /\ members = {}
    /\ snap = SnapIdle
    /\ gor = NoCalls
    /\ mu = Unlocked

\* timeout := time.Now().Add(maxLeaderWait)
WaitForLeader_call ==
    /\ wait.pc = "idle"
    /\ wait' = [WaitIdle EXCEPT !.pc = "test", !.timeout = wclock + maxLeaderWait]
    /\ UNCHANGED <<wclock, leaderAddr>>
    /\ UNCHANGED <<storageVars, nodeVars, ringVars, snapVars, lockVars>>

\* the loop condition time.Now().Before(timeout); return ErrTimeout after the loop
WaitForLeader_test ==
    /\ wait.pc = "test"
    /\ IF wclock < wait.timeout
       THEN wait' = [wait EXCEPT !.pc = "poll"]
       ELSE wait' = [wait EXCEPT !.pc = "returned", !.err = ErrTimeout]
    /\ UNCHANGED <<wclock, leaderAddr>>
    /\ UNCHANGED <<storageVars, nodeVars, ringVars, snapVars, lockVars>>

\* (mutant) the poll returns nil whatever n.raft.Leader() gives
WaitForLeader_poll_anyLeader ==
    /\ wait.pc = "poll"
    /\ wait' = [wait EXCEPT !.pc = "returned", !.leader = leaderAddr, !.err = NoError]
    /\ UNCHANGED <<wclock, leaderAddr>>
    /\ UNCHANGED <<storageVars, nodeVars, ringVars, snapVars, lockVars>>

\* if leader := n.raft.Leader(); leader != "" { return nil }
WaitForLeader_poll ==
    /\ wait.pc = "poll"
    /\ IF leaderAddr # NoLeader
       THEN wait' = [wait EXCEPT !.pc = "returned", !.leader = leaderAddr, !.err = NoError]
       ELSE wait' = [wait EXCEPT !.pc = "sleep", !.leader = leaderAddr]
    /\ UNCHANGED <<wclock, leaderAddr>>
    /\ UNCHANGED <<storageVars, nodeVars, ringVars, snapVars, lockVars>>

\* time.Sleep(leaderWaitDelay)
WaitForLeader_sleep(d) ==
    /\ wait.pc = "sleep"
    /\ wclock' = wclock + d
    /\ wait' = [wait EXCEPT !.pc = "test"]
    /\ UNCHANGED leaderAddr
    /\ UNCHANGED <<storageVars, nodeVars, ringVars, snapVars, lockVars>>

\* the engine learns of a leader, or of there being none
raft_LeaderChange(addr) ==
    /\ addr # leaderAddr
    /\ leaderAddr' = addr
    /\ UNCHANGED <<wclock, wait>>
    /\ UNCHANGED <<storageVars, nodeVars, ringVars, snapVars, lockVars>>

\* the steps of the goroutine that runs WaitForLeader
WaitForLeader_step ==
    \/ WaitForLeader_test
    \/ WaitForLeader_poll
    \/ \E d \in leaderWaitDelay..(leaderWaitDelay + MaxSlack) : WaitForLeader_sleep(d)

WaitNext ==
    \/ WaitForLeader_call
    \/ WaitForLeader_test
    \/ WaitForLeader_poll
    \/ \E d \in leaderWaitDelay..(leaderWaitDelay + MaxSlack) : WaitForLeader_sleep(d)
    \/ \E addr \in LeaderAddrs : raft_LeaderChange(addr)

\* the goroutine keeps running and time.Sleep returns
SpecWait == WaitInit /\ [][WaitNext]_vars /\ WF_vars(WaitForLeader_step)

\* C18: a WaitForLeader call returns: with nil only at a poll that found a
\* leader address, and it goes on polling only after a poll that found
\* none; with ErrTimeout only once maxLeaderWait has passed since the call;
\* and every call that has started returns.
C18_WaitForLeaderTerminates ==
    /\ [](/\ (wait.pc = "returned" /\ wait.err = NoError) => wait.leader # NoLeader
          /\ wait.pc = "sleep" => wait.leader = NoLeader
          /\ (wait.pc = "returned" /\ wait.err # NoError) =>
                 (wait.err = ErrTimeout /\ wclock >= wait.timeout)
          /\ wait.pc # "idle" => wait.timeout = maxLeaderWait)
    /\ ((wait.pc = "test") ~> (wait.pc = "returned"))

C18_Witness ==
    /\ wait.pc = "returned"
    /\ wait.err = ErrTimeout
    /\ leaderAddr # NoLeader
    /\ wclock > wait.timeout

----------------------------------------------------------------------------
(* The hash ring as a state machine: Add and Remove calls on one Map *)

RingInit ==
    /\ backend = "memory"
    /\ data = EmptyMap
    /\ files = EmptyDir
    /\ now = 1
    /\ last = Returned("New", NoKey, ZeroValue, NoError, FALSE, {}, FALSE)
    /\ failed = FALSE
    /\ ioFault = FALSE
    /\ role = "Follower"
    /\ raftLog = <<>>
    /\ call = NodeIdle
    /\ quorum = TRUE
    /\ pending = <<>>
    /\ acked = EmptyMap
    /\ wclock = 0
    /\ wait = WaitIdle
    /\ leaderAddr = NoLeader
    /\ ringKeys = <<>>
    /\ hashMap = EmptyHashMap
    /\ members = {}
    /\ snap = SnapIdle
    /\ gor = NoCalls
    /\ mu = Unlocked

Add(key) ==
    /\ Len(ringKeys) + replicas <= MaxAdds * replicas
    /\ LET m == Map_Add(Map(ringKeys, hashMap), key) IN
         /\ ringKeys' = m.keys
         /\ hashMap' = m.hashMap
    /\ members' = members \cup {key}
    /\ UNCHANGED <<storageVars, nodeVars, waitVars, snapVars, lockVars>>

Remove(key) ==
    /\ LET m == Map_Remove(Map(ringKeys, hashMap), key) IN
         /\ ringKeys' = m.keys
         /\ hashMap' = m.hashMap
    /\ members' = members \ {key}
    /\ UNCHANGED <<storageVars, nodeVars, waitVars, snapVars, lockVars>>

RingNext ==
    \/ \E key \in RingNodes : Add(key)
    \/ \E key \in RingNodes : Remove(key)

SpecRing == RingInit /\ [][RingNext]_vars

\* Map.Get on the ring as it is
RingGet(key) == Map_Get(Map(ringKeys, hashMap), key)

\* C19: whenever the ring holds at least one position, Get(key) is not the
\* empty string and is the ID of a node added and not removed since.
C19_GetReturnsMember ==
    Len(ringKeys) > 0 =>
        \A key \in LookupKeys : RingGet(key) # EmptyString /\ RingGet(key) \in members

Positions == {ringKeys[i] : i \in 1..Len(ringKeys)}

MinOf(S) == CHOOSE x \in S : \A y \in S : x <= y

\* the smallest position >= hash(key), else the smallest position
PositionOf(key) ==
    LET up == {p \in Positions : p >= hash(key)} IN
    IF up = {} THEN MinOf(Positions) ELSE MinOf(up)

\* the ring of TestHashing: Add("6", "4", "2") on a new Map
TestRing ==
    Map_Add(Map_Add(Map_Add(Map(<<>>, EmptyHashMap), <<6>>), <<4>>), <<2>>)

C21_AddRemoveRoundTrip ==
    \A x \in RingNodes \ members :
        \A key \in LookupKeys :
            Map_Get(Map_Remove(Map_Add(Map(ringKeys, hashMap), x), x), key) = RingGet(key)

\* C22: after Add(x) every key maps to the node it mapped to before or to x;
\* after Remove(x) of a node on the ring every key that did not map to x
\* maps to the node it mapped to before.
C22_MinimalRelocation ==
    [][\A x \in RingNodes :
          /\ Add(x) =>
                \A key \in LookupKeys :
                    Map_Get(Map(ringKeys', hashMap'), key) \in {RingGet(key), x}
          /\ (Remove(x) /\ x \in members) =>
                \A key \in LookupKeys :
                    RingGet(key) # x =>
                        Map_Get(Map(ringKeys', hashMap'), key) = RingGet(key)]_vars

\* C23: GetAll returns exactly the node IDs added and not removed since.
C23_GetAllIsMembers ==
    Map_GetAll(Map(ringKeys, hashMap)) = members

----------------------------------------------------------------------------
(* The replicated state machine as a state machine: the consensus library   *)
(* hands the entries of the log to FSM.Apply one at a time, in order, and   *)
(* calls FSM.Snapshot between two entries, while the clock advances.        *)
(* raftLog holds the Data of the entries applied so far.                    *)

\* the node ID a joining node sends as the Key of its "join" command
JoinerID == "node2"

\* the commands a log entry can carry: the three tags of Apply and "join"
FSMCommands ==
    Commands \cup {Command("deleteAll", NoKey, ZeroValue),
                   Command("join", JoinerID, ZeroValue)}

\* the Data of a log entry
LogEntries == {json_MarshalCommand(c) : c \in FSMCommands} \cup {Undecodable}

FSMInit ==
    /\ backend \in {"memory", "disk"}
    /\ data = EmptyMap
    /\ files = EmptyDir
    /\ now = 1
    /\ last = Returned("New", NoKey, ZeroValue, NoError, FALSE, {}, FALSE)
    /\ failed = FALSE
    /\ ioFault = FALSE
    /\ role = "Follower"
    /\ raftLog = <<>>
    /\ call = NodeIdle
    /\ quorum = TRUE
    /\ pending = <<>>
    /\ acked = EmptyMap
    /\ wclock = 0
    /\ wait = WaitIdle
    /\ leaderAddr = NoLeader
    /\ ringKeys = <<>>
    /\ hashMap = EmptyHashMap
    /\ members = {}
    /\ snap = SnapIdle
    /\ gor = NoCalls
    /\ mu = Unlocked

\* FSM.Apply of the next entry of the log
FSM_ApplyEntry(d, F) ==
    /\ Len(raftLog) < MaxLog
    /\ LET r == FSM_ApplyLog(backend, data, files, d, F) IN
         /\ data' = r.data
         /\ files' = r.files
         /\ last' = Returned("Apply", d.key, ZeroValue, r.resp, FALSE, {},
                             Present(data, files, d.key))
         /\ failed' = (failed \/ (d.valid /\ r.resp # NoError))
         /\ ioFault' = (ioFault \/ (d.valid /\ r.resp # NoError))
    /\ raftLog' = Append(raftLog, d)
    /\ UNCHANGED <<backend, now>>
    /\ UNCHANGED <<role, call, quorum, pending, acked>>
    /\ UNCHANGED <<waitVars, ringVars, snapVars, lockVars>>

\* FSM.Snapshot between two entries: nothing else touches the store
FSM_SnapshotCall(F) ==
    /\ LET r == FSM_Snapshot(backend, data, files, now, F) IN
         /\ data' = r.data
         /\ files' = r.files
         /\ snap' = [data |-> r.snapshot, keys |-> {}, pc |-> "done",
                     index |-> Len(raftLog),
                     seen |-> {Pairs(backend, data, files, now)}, alone |-> TRUE]
    /\ UNCHANGED <<backend, now, last, failed, ioFault>>
    /\ UNCHANGED <<nodeVars, waitVars, ringVars, lockVars>>

FSMNext ==
    \/ \E d \in LogEntries : \E F \in FaultSets(backend) : FSM_ApplyEntry(d, F)
    \/ \E F \in FaultSets(backend) : FSM_SnapshotCall(F)
    \/ Tick

SpecFSM == FSMInit /\ [][FSMNext]_vars

\* the store of backend b that has applied the entries of the log from an
\* empty store
Replayed(b) == FSM_Replay(b, EmptyMap, EmptyDir, raftLog, 1)

\* C24: the same sequence of log entries (set, delete, deleteAll, unknown
\* and undecodable ones included), every Apply of which returned nil for the
\* store calls it made, leaves two stores built independently from empty,
\* of either backend, with the same keys and the same values.
C24_ApplyDeterministic ==
    ~failed =>
        \A b \in {"memory", "disk"} :
            LET r == Replayed(b) IN
            /\ Pairs(b, r.data, r.files, now) = Pairs(backend, data, files, now)
            /\ Storage_Keys(b, r.data, r.files, now, {}).keys
                   = Storage_Keys(backend, data, files, now, {}).keys

C24_Witness ==
    /\ ~failed
    /\ Len(raftLog) = MaxLog
    /\ \E i \in DOMAIN raftLog : ~raftLog[i].valid \/ raftLog[i].op = "join"
    /\ DOMAIN Pairs(backend, data, files, now) # {}

\* the store of backend b that restored the last snapshot into the store
\* (m, fs) and then applied the entries after the snapshot's index
RestoredThenSuffix(b, m, fs) ==
    LET r == FSM_Restore(b, m, fs, fsmSnapshot_Persist(snap.data), {}, {}) IN
    FSM_Replay(b, r.data, r.files, raftLog, snap.index + 1)

\* C26: with every store call of every Apply returning nil, a store that
\* restores the snapshot taken after entry i and then applies the entries
\* after i shows the same keys and values as a store that applied all the
\* entries from empty, whether the restoring store was empty or not.
C26_SnapshotPlusSuffix ==
    (snap.pc = "done" /\ ~failed) =>
        /\ \A b \in {"memory", "disk"} :
              LET s == RestoredThenSuffix(b, EmptyMap, EmptyDir)
                  r == Replayed(b)
              IN  Pairs(b, s.data, s.files, now) = Pairs(b, r.data, r.files, now)
        /\ LET s == RestoredThenSuffix(backend, data, files) IN
           Pairs(backend, s.data, s.files, now) = Pairs(backend, data, files, now)

C26_Witness ==
    /\ snap.pc = "done"
    /\ ~failed
    /\ 0 < snap.index
    /\ snap.index < Len(raftLog)
    /\ DOMAIN snap.data # {}
    /\ DOMAIN Pairs(backend, data, files, now) # {}

\* FSM.Apply has just applied the entry d
Applied(d) == \E F \in FaultSets(backend) : FSM_ApplyEntry(d, F)

\* C27: Apply of a "set" leaves the command's value at the command's key;
\* Apply of a "delete" that returns nil leaves the key absent; Apply of a
\* "deleteAll" that returns nil leaves the store empty; Apply of an entry
\* with another tag or of an undecodable entry returns (nil for the tag, the
\* decoding error otherwise) and leaves the store as it was.
C27_ApplyDispatch ==
    [][\A d \in LogEntries :
          Applied(d) =>
              /\ (d.valid /\ d.op = "set") =>
                    /\ Present(data', files', d.key)
                    /\ Held(data', files', d.key) = json_Unmarshal(d.value)
              /\ (d.valid /\ d.op = "delete" /\ last'.err = NoError) =>
                    ~Present(data', files', d.key)
              /\ (d.valid /\ d.op = "deleteAll" /\ last'.err = NoError) =>
                    data' = EmptyMap /\ files' = EmptyDir
              /\ (d.valid /\ d.op \notin {"set", "delete", "deleteAll"}) =>
                    data' = data /\ files' = files /\ last'.err = NoError
              /\ ~d.valid =>
                    data' = data /\ files' = files /\ last'.err = ErrJSON]_vars

C27_Witness ==
    /\ Len(raftLog) = 2
    /\ raftLog[1].valid
    /\ raftLog[1].op = "set"
    /\ raftLog[2].op \in {"join", ""}
    /\ last.op = "Apply"
    /\ Present(data, files, raftLog[1].key)

\* the store after Snapshot, Persist, Clear and Restore of the persisted
\* snapshot, every file-system call of the four succeeding
RoundTrip(b, m, fs, t) ==
    LET s == FSM_Snapshot(b, m, fs, t, {})
        c == Storage_Clear(b, s.data, s.files, {})
    IN  FSM_Restore(b, c.data, c.files, fsmSnapshot_Persist(s.snapshot), {}, {})

\* C25: for any store state, after Snapshot, Persist, Clear and Restore the
\* store returns from Keys() the keys it returned before and from Get() the
\* value it returned before, for every key that had not expired.
C25_SnapshotRoundTrip ==
    LET r == RoundTrip(backend, data, files, now) IN
    /\ Storage_Keys(backend, r.data, r.files, now, {}).keys
           = DOMAIN Pairs(backend, data, files, now)
    /\ Pairs(backend, r.data, r.files, now) = Pairs(backend, data, files, now)

----------------------------------------------------------------------------
(* FSM.Snapshot step by step, on a store other goroutines call meanwhile:   *)
(* Keys() is one step, each Get(key) of the loop is one step, and between   *)
(* two steps any Set, Delete or Clear of the same store can run and the     *)
(* clock can advance. FSM.Restore runs between two snapshots.               *)
(* snap.seen collects the pairs the store showed at each instant of the     *)
(* Snapshot call.                                                           *)

\* the value the other goroutines write: it expires once the clock passes 2
SnapValues == {Value(Bytes(<<7>>), 2)}

SnapInit ==
    /\ backend \in {"memory", "disk"}
    /\ data = EmptyMap
    /\ files = EmptyDir
    /\ now = 1
    /\ last = Returned("New", NoKey, ZeroValue, NoError, FALSE, {}, FALSE)
    /\ failed = FALSE
    /\ ioFault = FALSE
    /\ role = "Follower"
    /\ raftLog = <<>>
    /\ call = NodeIdle
    /\ quorum = TRUE
    /\ pending = <<>>
    /\ acked = EmptyMap
    /\ wclock = 0
    /\ wait = WaitIdle
    /\ leaderAddr = NoLeader
    /\ ringKeys = <<>>
    /\ hashMap = EmptyHashMap
    /\ members = {}
    /\ snap = SnapIdle
    /\ gor = NoCalls
    /\ mu = Unlocked

\* snap after a step of another goroutine or of the clock that leaves the
\* store as (m, fs) at time t
Seen(m, fs, t) ==
    IF snap.pc = "enum"
    THEN [snap EXCEPT !.seen = @ \cup {Pairs(backend, m, fs, t)}, !.alone = FALSE]
    ELSE snap

\* keys := f.store.Keys()
Snapshot_Keys(F) ==
    /\ snap.pc # "enum"
    /\ LET ks == Storage_Keys(backend, data, files, now, F) IN
         /\ data' = ks.data
         /\ files' = ks.files
         /\ ioFault' = (ioFault \/ ks.fault)
         /\ snap' = [data |-> EmptyMap, keys |-> ks.keys,
                     pc |-> IF ks.keys = {} THEN "done" ELSE "enum",
                     index |-> 0,
                     seen |-> {Pairs(backend, data, files, now),
                               Pairs(backend, ks.data, ks.files, now)},
                     alone |-> TRUE]
    /\ UNCHANGED <<backend, now, last, failed>>
    /\ UNCHANGED <<nodeVars, waitVars, ringVars, lockVars>>

\* one round of the loop: value, err := f.store.Get(key)
Snapshot_Get(key, F) ==
    /\ snap.pc = "enum"
    /\ key \in snap.keys
    /\ LET g == Storage_Get(backend, data, files, key, now, F) IN
         /\ data' = g.data
         /\ files' = g.files
         /\ ioFault' = (ioFault \/ g.fault)
         /\ snap' = [snap EXCEPT
                        !.data = IF g.err = NoError THEN MapSet(@, key, g.val) ELSE @,
                        !.keys = @ \ {key},
                        !.pc = IF snap.keys = {key} THEN "done" ELSE "enum",
                        !.seen = @ \cup {Pairs(backend, g.data, g.files, now)}]
    /\ UNCHANGED <<backend, now, last, failed>>
    /\ UNCHANGED <<nodeVars, waitVars, ringVars, lockVars>>

\* Set by another goroutine
Other_Set(key, value, F) ==
    LET r == Storage_Set(backend, data, files, key, value, F) IN
    /\ data' = r.data
    /\ files' = r.files
    /\ failed' = (failed \/ r.err # NoError)
    /\ ioFault' = (ioFault \/ r.fault)
    /\ snap' = Seen(r.data, r.files, now)
    /\ UNCHANGED <<backend, now, last>>
    /\ UNCHANGED <<nodeVars, waitVars, ringVars, lockVars>>

\* Delete by another goroutine
Other_Delete(key, F) ==
    LET r == Storage_Delete(backend, data, files, key, F) IN
    /\ data' = r.data
    /\ files' = r.files
    /\ failed' = (failed \/ r.err # NoError)
    /\ ioFault' = (ioFault \/ r.fault)
    /\ snap' = Seen(r.data, r.files, now)
    /\ UNCHANGED <<backend, now, last>>
    /\ UNCHANGED <<nodeVars, waitVars, ringVars, lockVars>>

\* Clear by another goroutine
Other_Clear(F) ==
    LET r == Storage_Clear(backend, data, files, F) IN
    /\ data' = r.data
    /\ files' = r.files
    /\ failed' = (failed \/ r.err # NoError)
    /\ ioFault' = (ioFault \/ r.fault)
    /\ snap' = Seen(r.data, r.files, now)
    /\ UNCHANGED <<backend, now, last>>
    /\ UNCHANGED <<nodeVars, waitVars, ringVars, lockVars>>

\* the clock advances, during a Snapshot call or outside one
Snapshot_Tick ==
    /\ now < MaxTime
    /\ now' = now + 1
    /\ snap' = IF snap.pc = "enum"
               THEN [snap EXCEPT !.seen = @ \cup {Pairs(backend, data, files, now + 1)}]
               ELSE snap
    /\ UNCHANGED <<backend, data, files, last, failed, ioFault>>
    /\ UNCHANGED <<nodeVars, waitVars, ringVars, lockVars>>

\* the streams Restore is given: the last snapshot as Persist wrote it, or
\* bytes that are not a JSON document
Streams ==
    {CorruptStream} \cup
        (IF snap.pc = "done" THEN {fsmSnapshot_Persist(snap.data)} ELSE {})

\* FSM.Restore(rc)
FSM_RestoreCall(stream, Fc, Fs) ==
    /\ snap.pc # "enum"
    /\ stream \in Streams
    /\ LET r == FSM_Restore(backend, data, files, stream, Fc, Fs) IN
         /\ data' = r.data
         /\ files' = r.files
         /\ last' = Returned("Restore", NoKey, ZeroValue, r.err, FALSE, {}, FALSE)
         /\ failed' = (failed \/ r.err = ErrIO)
         /\ ioFault' = (ioFault \/ r.err = ErrIO
                           \/ (backend = "disk" /\ r.err = NoError
                                 /\ DOMAIN stream.pairs \cap Fs # {}))
    /\ UNCHANGED <<backend, now, snap>>
    /\ UNCHANGED <<nodeVars, waitVars, ringVars, lockVars>>

SnapNext ==
    \/ \E F \in FaultSets(backend) : Snapshot_Keys(F)
    \/ \E key \in Keys : \E F \in KeyFaults(backend, key) : Snapshot_Get(key, F)
    \/ \E key \in Keys, value \in SnapValues :
          \E F \in KeyFaults(backend, key) : Other_Set(key, value, F)
    \/ \E key \in Keys : \E F \in KeyFaults(backend, key) : Other_Delete(key, F)
    \/ \E F \in FaultSets(backend) : Other_Clear(F)
    \/ Snapshot_Tick
    \/ \E Fc \in FaultSets(backend), Fs \in FaultSets(backend) :
          \E stream \in Streams : FSM_RestoreCall(stream, Fc, Fs)

SpecSnap == SnapInit /\ [][SnapNext]_vars

\* C28: the map a completed Snapshot holds is the set of non-expired pairs
\* the store showed at one instant of the call.
C28_SnapshotConsistent ==
    snap.pc = "done" => snap.data \in snap.seen

\* FSM.Restore has just run on the stream with the file faults Fc and Fs
Restored(stream, Fc, Fs) == FSM_RestoreCall(stream, Fc, Fs)

\* the keys of the stream whose Set returned nil
Written(stream, Fs) ==
    {k \in DOMAIN stream.pairs : backend = "memory" \/ k \notin Fs}

\* C29: after a Restore that returned nil the store holds the pairs of the
\* snapshot whose Set returned nil and nothing else; a Set that fails does
\* not make Restore return an error.
C29_RestoreReplaces ==
    [][\A stream \in Streams : \A Fc \in FaultSets(backend), Fs \in FaultSets(backend) :
          (Restored(stream, Fc, Fs) /\ last'.err = NoError) =>
              \A k \in Keys :
                  /\ Present(data', files', k) <=> k \in Written(stream, Fs)
                  /\ k \in Written(stream, Fs) =>
                        Held(data', files', k) = json_Unmarshal(stream.pairs[k])]_vars

\* C30: a Restore that returns the decoding error leaves the store as it was.
C30_RestoreErrorKeepsStore ==
    [][\A Fc \in FaultSets(backend), Fs \in FaultSets(backend) :
          (Restored(CorruptStream, Fc, Fs) /\ last'.err = ErrJSON) =>
              data' = data /\ files' = files]_vars

\* C34: a DiskStorage.Set(k, v) that returns an error leaves Get(k) as it
\* was: the value and the error Get(k) returned before the failed Set.
C34_FailedSetChangesNothing ==
    [][\A key \in Keys, value \in Values : \A F \in KeyFaults(backend, key) :
          (Set(key, value, F) /\ last'.err # NoError) =>
              LET before == Storage_Get(backend, data, files, key, now, {})
                  after == Storage_Get(backend, data', files', key, now, {})
              IN  after.val = before.val /\ after.err = before.err]_vars

\* the positions of the ring the position-to-node map gives to the node
OwnedBy(node) ==
    {i \in 1..Len(ringKeys) :
        ringKeys[i] \in DOMAIN hashMap /\ hashMap[ringKeys[i]] = node}

\* C35: after any Add and Remove calls the position array is sorted
\* ascending, every position has an entry in the position-to-node map, every
\* node on the ring owns exactly `replicas` positions and a node that is
\* not on the ring owns none.
C35_RingStructure ==
    /\ \A i \in 1..(Len(ringKeys) - 1) : ringKeys[i] <= ringKeys[i + 1]
    /\ \A i \in 1..Len(ringKeys) : ringKeys[i] \in DOMAIN hashMap
    /\ \A node \in members : Cardinality(OwnedBy(node)) = replicas
    /\ \A node \in RingNodes \ members : OwnedBy(node) = {}

----------------------------------------------------------------------------
(* Concurrent calls of one store: each goroutine makes one Storage call     *)
(* after the other, the steps of the calls in flight interleave in every    *)
(* order, and the clock advances.                                           *)

LockInit ==
    /\ backend \in {"memory", "disk"}
    /\ data = EmptyMap
    /\ files = EmptyDir
    /\ now = 1
    /\ last = Returned("New", NoKey, ZeroValue, NoError, FALSE, {}, FALSE)
    /\ failed = FALSE
    /\ ioFault = FALSE
    /\ role = "Follower"
    /\ raftLog = <<>>
    /\ call = NodeIdle
    /\ quorum = TRUE
    /\ pending = <<>>
    /\ acked = EmptyMap
    /\ wclock = 0
    /\ wait = WaitIdle
    /\ leaderAddr = NoLeader
    /\ ringKeys = <<>>
    /\ hashMap = EmptyHashMap
    /\ members = {}
    /\ snap = SnapIdle
    /\ gor = NoCalls
    /\ mu = Unlocked

\* the calls a goroutine makes
StorageCalls ==
    {<<"Set", k, v>> : k \in NodeKeys, v \in NodeValues}
        \cup {<<op, k, ZeroValue>> : op \in {"Get", "Has", "Delete"}, k \in NodeKeys}
        \cup {<<"Keys", NoKey, ZeroValue>>, <<"Clear", NoKey, ZeroValue>>}

InFlight(g) == gor[g].todo # <<>>

\* the goroutine calls a method of the store
Go_Call(g, c) ==
    /\ ~InFlight(g)
    /\ gor' = [h \in Goroutines |->
                 IF h = g
                 THEN [key |-> c[2], err |-> NoError, val |-> c[3], op |-> c[1],
                       todo |-> Code(backend, c[1], c[2], c[3]),
                       during |-> {x \in Goroutines \ {g} : InFlight(x)}]
                 ELSE IF InFlight(h)
                      THEN [gor[h] EXCEPT !.during = @ \cup {g}]
                      ELSE gor[h]]
    /\ UNCHANGED <<storageVars, mu>>
    /\ UNCHANGED <<nodeVars, waitVars, ringVars, snapVars>>

\* the goroutine runs its next step
Go_Step(g) ==
    /\ CanStep(gor[g], mu)
    /\ LET s == Head(gor[g].todo)
           rest == Tail(gor[g].todo)
       IN  CASE s.i \in LockSteps ->
                  LET r == sync_RWMutex(mu, g, s) IN
                  /\ mu' = r.mu
                  /\ gor' = [gor EXCEPT ![g].todo = r.next \o rest]
                  /\ UNCHANGED <<data, files>>
             [] s.i \in MemorySteps ->
                  LET r == MemoryStorage_step(data, s, now, gor[g].err) IN
                  /\ data' = r.data
                  /\ gor' = [gor EXCEPT ![g].todo = r.next \o rest, ![g].err = r.err]
                  /\ UNCHANGED <<files, mu>>
             [] OTHER ->
                  LET r == DiskStorage_step(files, s, now, gor[g].err) IN
                  /\ files' = r.files
                  /\ gor' = [gor EXCEPT ![g].todo = r.next \o rest, ![g].err = r.err]
                  /\ UNCHANGED <<data, mu>>
    /\ UNCHANGED <<backend, now, last, failed, ioFault>>
    /\ UNCHANGED <<nodeVars, waitVars, ringVars, snapVars>>

Go_Tick ==
    /\ now < MaxTime
    /\ now' = now + 1
    /\ UNCHANGED <<backend, data, files, last, failed, ioFault>>
    /\ UNCHANGED <<nodeVars, waitVars, ringVars, snapVars, lockVars>>

LockNext ==
    \/ \E g \in Goroutines : \E c \in StorageCalls : Go_Call(g, c)
    \/ \E g \in Goroutines : Go_Step(g)
    \/ Go_Tick

SpecLock == LockInit /\ [][LockNext]_vars

\* C31: in every interleaving of concurrent Get/Set/Delete/Has/Keys/Clear
\* calls on either backend, a call that waits for a lock waits for another
\* goroutine that can run (no call deadlocks); no unlock is of a mutex the
\* goroutine does not hold and a call that has returned holds no lock (every
\* lock is released exactly once); a step that writes the map runs with
\* m.mutex held for writing and no reader, a step that reads it with m.mutex
\* held for reading and no writer; and no goroutine that asks for d.mutex
\* holds m.mutex.
C31_LockDiscipline ==
    \A g \in Goroutines :
        /\ (InFlight(g) /\ ~CanStep(gor[g], mu)) =>
              /\ Head(gor[g].todo).i # "fatal"
              /\ \E h \in Goroutines \ {g} : CanStep(gor[h], mu)
        /\ ~InFlight(g) =>
              \A name \in {"memory", "disk"} : ~Holds(mu[name], g) /\ g \notin mu[name].q
        /\ InFlight(g) =>
              LET s == Head(gor[g].todo) IN
              /\ s.i \in {"m.set", "m.delete", "m.clear"} =>
                    /\ mu.memory.w = g
                    /\ \A h \in Goroutines : mu.memory.r[h] = 0
              /\ s.i \in {"m.get", "m.has", "m.keys"} =>
                    mu.memory.r[g] > 0 /\ mu.memory.w = NoGoroutine
              /\ (s.i \in {"Lock", "Acquire", "RLock"} /\ s.arg = "disk") =>
                    ~Holds(mu.memory, g)

\* a Get that saw the expired value waits to take the read lock again while
\* another goroutine holds m.mutex for writing
C31_Witness ==
    \E g \in Goroutines, h \in Goroutines :
        /\ g # h
        /\ gor[g].op = "Get"
        /\ gor[g].err = ErrKeyExpired
        /\ InFlight(g)
        /\ Head(gor[g].todo).i = "RLock"
        /\ mu.memory.w = h
        /\ gor[h].op = "Set"

\* C32: when a Get(k) that saw an expired value and a Set(k, v') of a value
\* that has not expired ran concurrently and both have returned, the store
\* returns v' for k.
C32_ExpiryKeepsLiveData ==
    \A g \in Goroutines, h \in Goroutines :
        ( /\ ~InFlight(g) /\ ~InFlight(h)
          /\ gor[g].op = "Get" /\ gor[g].err = ErrKeyExpired
          /\ gor[h].op = "Set" /\ gor[h].key = gor[g].key
          /\ ~IsExpired(gor[h].val, now)
          /\ h \in gor[g].during /\ g \in gor[h].during )
        => LET r == Storage_Get(backend, data, files, gor[g].key, now, {}) IN
           r.err = NoError /\ r.val = gor[h].val

\* C33: on DiskStorage, once every call has returned, each key is absent
\* from the cache and from the directory, or present in both with the same
\* value.
C33_CacheDiskCoherent ==
    (backend = "disk" /\ \A g \in Goroutines : ~InFlight(g)) =>
        \A k \in Keys :
            /\ k \in DOMAIN data <=> k \in DOMAIN files
            /\ k \in DOMAIN data => data[k] = json_Unmarshal(files[k])

====
